---------------------------- MODULE Spec2Model ----------------------------
(***************************************************************************)
(* Model of the GPR-20 data processing pipeline                            *)
(* (gpr20_data_processing): the VNA response parser (data_parsing.py),     *)
(* the JSON sample storage (data_storage.py) and the pipeline that joins   *)
(* them (data_processing.py).                                              *)
(*                                                                         *)
(* Representation.                                                         *)
(*  - A Python str is a sequence of one-character strings.                 *)
(*  - A float produced by float() is an exact decimal <<m, e>> standing    *)
(*    for m * 10^-e, normalised so that m has no trailing zero digit       *)
(*    unless e = 0 (so equal numbers are equal values: 1.0 = 1. = 1).      *)
(*  - A coordinate is an integer number of thousandths; the coordinate     *)
(*    sets hold no value that lies exactly between two hundredths.         *)
(*  - The filesystem is the set of existing directories and a map from     *)
(*    file path to content.                                                *)
(*  - The code is read with Python 3 semantics: the parse methods, which    *)
(*    carry no @staticmethod, are called through the class as plain        *)
(*    functions, and os.mkdir on an existing path raises FileExistsError.  *)
(***************************************************************************)
EXTENDS Integers, Sequences, FiniteSets, TLC

VARIABLES
    pc,       \* pc[p]: position of invocation p in the code
    call,     \* call[p]: the arguments invocation p was called with
    loc,      \* loc[p]: the local variables of invocation p
    outcome,  \* outcome[p]: "none" while running, "ok", or the exception raised
    dirs,     \* the directories that exist
    files     \* files: path -> content of every file that exists

vars == <<pc, call, loc, outcome, dirs, files>>

Procs == {1, 2}

-----------------------------------------------------------------------------
(* Bounds of the model *)

\* longest arbitrary (possibly malformed) response string tried by the parser
MaxRaw == 4
\* largest header-length digit used when encoding valid responses
MaxHeader == 1
\* longest float list encoded into a valid response
MaxVals == 4
\* longest frequency / real / imaginary list passed directly to store_data
MaxPts == 2

-----------------------------------------------------------------------------
(* Python sequence primitives *)

\* s[k:] for k >= 0: slicing never raises, it yields '' past the end
SliceFrom(s, k) ==
    IF k >= Len(s) THEN <<>> ELSE SubSeq(s, k + 1, Len(s))

\* all sequences over S of length at most n
SeqsUpTo(S, n) == UNION {[1..k -> S] : k \in 0..n}

RECURSIVE Concat(_)
\* ''.join(ss)
Concat(ss) == IF ss = <<>> THEN <<>> ELSE Head(ss) \o Concat(Tail(ss))

RECURSIVE SplitFrom(_, _, _)
\* helper of Split: acc is the segment being read
SplitFrom(s, sep, acc) ==
    IF s = <<>> THEN <<acc>>
    ELSE IF Head(s) = sep THEN <<acc>> \o SplitFrom(Tail(s), sep, <<>>)
    ELSE SplitFrom(Tail(s), sep, Append(acc, Head(s)))

\* s.split(sep) for a one-character separator: always at least one segment
Split(s, sep) == SplitFrom(s, sep, <<>>)

-----------------------------------------------------------------------------
(* float() and int() on the characters of the model's alphabet *)

Digits == <<"0", "1", "2", "3", "4", "5", "6", "7", "8", "9">>

IsDigit(c) == \E i \in 1..Len(Digits) : Digits[i] = c

DigitVal(c) == (CHOOSE i \in 1..Len(Digits) : Digits[i] = c) - 1

RECURSIVE DigitsToNat(_, _)
\* value of a digit string, most significant digit first
DigitsToNat(ds, acc) ==
    IF ds = <<>> THEN acc
    ELSE DigitsToNat(Tail(ds), acc * Len(Digits) + DigitVal(Head(ds)))

RECURSIVE Norm(_, _)
\* the normal form of m * 10^-e
Norm(m, e) ==
    IF e > 0 /\ m % Len(Digits) = 0 THEN Norm(m \div Len(Digits), e - 1)
    ELSE <<m, e>>

\* float(seg): [sign] digits [. [digits]] or [sign] . digits ; anything else
\* over the alphabet raises ValueError
ParseFloat(seg) ==
    LET neg  == seg # <<>> /\ Head(seg) = "-"
        body == IF neg THEN Tail(seg) ELSE seg
        dots == {i \in 1..Len(body) : body[i] = "."}
        wellformed ==
            /\ \A i \in 1..Len(body) : IsDigit(body[i]) \/ body[i] = "."
            /\ Cardinality(dots) <= 1
            /\ \E i \in 1..Len(body) : IsDigit(body[i])
        dot  == IF dots = {} THEN Len(body) + 1 ELSE CHOOSE i \in dots : TRUE
        ip   == SubSeq(body, 1, dot - 1)
        fp   == SubSeq(body, dot + 1, Len(body))
        mag  == DigitsToNat(ip \o fp, 0)
    IN  IF wellformed
        THEN [ok |-> TRUE, val |-> Norm(IF neg THEN 0 - mag ELSE mag, Len(fp))]
        ELSE [ok |-> FALSE, val |-> <<0, 0>>]

RECURSIVE NatToDigits(_)
\* decimal digits of a natural number, no leading zeros ("0" for 0)
NatToDigits(n) ==
    IF n < Len(Digits) THEN <<Digits[n + 1]>>
    ELSE Append(NatToDigits(n \div Len(Digits)), Digits[(n % Len(Digits)) + 1])

RECURSIVE Pow10(_)
Pow10(e) == IF e = 0 THEN 1 ELSE Len(Digits) * Pow10(e - 1)

RECURSIVE PadLeft(_, _)
\* zero-pad a digit string on the left to width w
PadLeft(ds, w) == IF Len(ds) >= w THEN ds ELSE PadLeft(<<"0">> \o ds, w)

\* repr(v) of a float: the text an instrument (or a test) encodes a value with;
\* always shows a decimal point and at least one fractional digit
FormatFloat(v) ==
    LET m    == v[1]
        e    == v[2]
        mag  == IF m < 0 THEN 0 - m ELSE m
        sign == IF m < 0 THEN <<"-">> ELSE <<>>
        ip   == NatToDigits(mag \div Pow10(e))
        fp   == IF e = 0 THEN <<"0">>
                ELSE PadLeft(NatToDigits(mag % Pow10(e)), e)
    IN  sign \o ip \o <<".">> \o fp

-----------------------------------------------------------------------------
(* data_parsing.py *)

\* __remove_header cutting header_len characters instead of header_len + 1
RemoveHeaderOffByOne(vna_response) ==
    LET s1 == SliceFrom(vna_response, 1)
    IN  IF s1 = <<>>
        THEN [err |-> "IndexError", out |-> <<>>]
        ELSE IF ~IsDigit(s1[1])
        THEN [err |-> "ValueError", out |-> <<>>]
        ELSE [err |-> "none", out |-> SliceFrom(s1, DigitVal(s1[1]))]

\* __remove_header reading the header length from two digits
RemoveHeaderTwoDigits(vna_response) ==
    LET s1 == SliceFrom(vna_response, 1)
    IN  IF s1 = <<>>
        THEN [err |-> "IndexError", out |-> <<>>]
        ELSE IF Len(s1) < 2 \/ ~IsDigit(s1[1]) \/ ~IsDigit(s1[2])
        THEN [err |-> "ValueError", out |-> <<>>]
        ELSE [err |-> "none",
              out |-> SliceFrom(s1, DigitsToNat(SubSeq(s1, 1, 2), 0) + 2)]

\* DataParsing.__remove_header: [err, out]
RemoveHeader(vna_response) ==
    LET s1 == SliceFrom(vna_response, 1)
    IN  IF s1 = <<>>
        THEN [err |-> "IndexError", out |-> <<>>]
        ELSE IF ~IsDigit(s1[1])
        THEN [err |-> "ValueError", out |-> <<>>]
        ELSE [err |-> "none", out |-> SliceFrom(s1, DigitVal(s1[1]) + 1)]

\* DataParsing.__create_array: [err, out]
CreateArray(vna_response) ==
    LET segs == Split(vna_response, ",")
        n    == Len(segs) - 1
    IN  IF \E indx \in 1..n : ~ParseFloat(segs[indx]).ok
        THEN [err |-> "ValueError", out |-> <<>>]
        ELSE [err |-> "none", out |-> [indx \in 1..n |-> ParseFloat(segs[indx]).val]]

RECURSIVE TraceLoop(_, _, _, _)
\* the loop of parse_vna_trace over indx in range(len(vna_trace)), with its
\* two independent conditionals
TraceLoop(vna_trace, indx, vna_trace_re, vna_trace_im) ==
    IF indx >= Len(vna_trace)
    THEN [re |-> vna_trace_re, im |-> vna_trace_im]
    ELSE TraceLoop(vna_trace, indx + 1,
                   IF indx % 2 = 0
                   THEN Append(vna_trace_re, vna_trace[indx + 1])
                   ELSE vna_trace_re,
                   IF indx % 2 # 1
                   THEN Append(vna_trace_im, vna_trace[indx + 1])
                   ELSE vna_trace_im)

\* the splitting part of parse_vna_trace
SplitTrace(vna_trace) == TraceLoop(vna_trace, 0, <<>>, <<>>)

\* DataParsing.parse_vna_frequency as a whole: [err, out]
ParseVnaFrequency(vna_freq) ==
    LET h == RemoveHeader(vna_freq)
    IN  IF h.err # "none" THEN h ELSE CreateArray(h.out)

\* DataParsing.parse_vna_trace as a whole: [err, re, im]
ParseVnaTrace(vna_trace) ==
    LET a == ParseVnaFrequency(vna_trace)
    IN  IF a.err # "none"
        THEN [err |-> a.err, re |-> <<>>, im |-> <<>>]
        ELSE [err |-> "none", re |-> SplitTrace(a.out).re, im |-> SplitTrace(a.out).im]

-----------------------------------------------------------------------------
(* data_storage.py *)

\* the field width and the precision of the "{:06.2f}" coordinate format
FieldWidth == 6
Precision == 2

\* the coordinate format cutting the third decimal instead of rounding it
FormatCoordTruncating(c) ==
    LET mag  == IF c < 0 THEN 0 - c ELSE c
        h    == mag \div 10
        sign == IF c < 0 THEN <<"-">> ELSE <<>>
        body == NatToDigits(h \div Pow10(Precision)) \o <<".">>
                \o PadLeft(NatToDigits(h % Pow10(Precision)), Precision)
    IN  sign \o PadLeft(body, FieldWidth - Len(sign))

\* "{:06.2f}".format(c) for a coordinate c in thousandths: rounded to
\* hundredths, sign kept even when the rounded value is zero, zero-padded
\* after the sign to the field width (longer values are not cut)
FormatCoord(c) ==
    LET mag  == IF c < 0 THEN 0 - c ELSE c
        h    == (mag + 5) \div 10
        sign == IF c < 0 THEN <<"-">> ELSE <<>>
        body == NatToDigits(h \div Pow10(Precision)) \o <<".">>
                \o PadLeft(NatToDigits(h % Pow10(Precision)), Precision)
    IN  sign \o PadLeft(body, FieldWidth - Len(sign))

\* fname of store_data
FName(x_coord, y_coord, z_coord) ==
    <<"X">> \o FormatCoord(x_coord) \o <<"_", "Y">> \o FormatCoord(y_coord)
    \o <<"_", "Z">> \o FormatCoord(z_coord) \o <<".", "j", "s", "o", "n">>

\* the data_list loop reading real_value from the imaginary list
DataListSwapped(vna_freq, vna_trace_re, vna_trace_im) ==
    IF \E indx \in 1..Len(vna_freq) :
           indx > Len(vna_trace_re) \/ indx > Len(vna_trace_im)
    THEN [err |-> "IndexError", out |-> <<>>]
    ELSE [err |-> "none",
          out |-> [indx \in 1..Len(vna_freq) |->
                     [freq_value      |-> vna_freq[indx],
                      real_value      |-> vna_trace_im[indx],
                      imaginary_value |-> vna_trace_im[indx]]]]

\* the data_list loop of store_data: [err, out]; indexing a list past its end
\* raises IndexError
DataList(vna_freq, vna_trace_re, vna_trace_im) ==
    IF \E indx \in 1..Len(vna_freq) :
           indx > Len(vna_trace_re) \/ indx > Len(vna_trace_im)
    THEN [err |-> "IndexError", out |-> <<>>]
    ELSE [err |-> "none",
          out |-> [indx \in 1..Len(vna_freq) |->
                     [freq_value      |-> vna_freq[indx],
                      real_value      |-> vna_trace_re[indx],
                      imaginary_value |-> vna_trace_im[indx]]]]

\* file_dict of store_data
FileDict(c, data_list) ==
    [x_coord |-> c.x_coord, y_coord |-> c.y_coord, z_coord |-> c.z_coord,
     antennae_height |-> c.antennae_height, timestamp |-> c.timestamp,
     survey_id |-> c.survey_id, sample_id |-> c.sample_id, data |-> data_list]

\* json.dumps(file_dict, indent=4): the document as its keys in insertion
\* order, each with its value; the data array as one such object per entry
JsonDumps(d) ==
    << <<"x_coord", d.x_coord>>, <<"y_coord", d.y_coord>>,
       <<"z_coord", d.z_coord>>, <<"antennae_height", d.antennae_height>>,
       <<"timestamp", d.timestamp>>, <<"survey_id", d.survey_id>>,
       <<"sample_id", d.sample_id>>,
       <<"data", [i \in 1..Len(d.data) |->
                    << <<"freq_value", d.data[i].freq_value>>,
                       <<"real_value", d.data[i].real_value>>,
                       <<"imaginary_value", d.data[i].imaginary_value>> >>]>> >>

\* main_folder of __check_main_folder: <home>/gpr20_data/
MainFolder == <<"~", "gpr20_data">>

\* survey_path of store_data: main_dir + '/' + survey_dir
SurveyPath(survey_dir) == Append(MainFolder, survey_dir)

\* the path store_data opens: survey_path + '/' + fname
FilePath(survey_dir, fname) == Append(SurveyPath(survey_dir), fname)

-----------------------------------------------------------------------------
(* The VNA instrument: what it encodes and what may arrive *)

\* characters of arbitrary (possibly malformed) responses
Alphabet == {"#", "1", "2", "x", ",", ".", "-"}

\* bytes a header may hold (a comma and a digit among them)
HeaderBytes == {"x", ",", "5"}

\* values in encoded responses: 1.0 and -2.5
FloatVals == {<<1, 0>>, <<-25, 1>>}

\* the trace [1.0, 2.0, 3.0, 4.0]
ExampleTrace == << <<1, 0>>, <<2, 0>>, <<3, 0>>, <<4, 0>> >>

\* the raw format: '#', the header length as one digit, the header bytes,
\* then every value followed by a comma
Encode(hdr, vals) ==
    <<"#", Digits[Len(hdr) + 1]>> \o hdr
    \o Concat([i \in 1..Len(vals) |-> Append(FormatFloat(vals[i]), ",")])

\* what the instrument encoded, when the response is one it encoded
Sent(hdr, vals) == [valid |-> TRUE, hdr |-> hdr, vals |-> vals]
NotSent == [valid |-> FALSE, hdr |-> <<>>, vals |-> <<>>]

\* '#15', fifteen 'x', then '1.0,2.0,3.0,'
ScenarioResponse ==
    <<"#", "1", "5">> \o [i \in 1..15 |-> "x"]
    \o <<"1", ".", "0", ",", "2", ".", "0", ",", "3", ".", "0", ",">>

\* responses as they reach the pipeline: encoded lists of at most MaxPts
\* values, and malformed ones (bad header digit, non-numeric segment,
\* shorter than the header promises, nothing after '#')
MalformedResponses ==
    { <<"#", "x", "1", ".", "0", ",">>,
      <<"#", "0", "1", ".", "0", ",", "x", ",">>,
      <<"#", "2", "x">>,
      <<"#">> }

PipelineResponses ==
    {Encode(<<>>, vals) : vals \in SeqsUpTo(FloatVals, MaxPts)}
    \cup MalformedResponses

-----------------------------------------------------------------------------
(* Calls *)

NoCall ==
    [op |-> "none", survey_dir |-> "", x_coord |-> 0, y_coord |-> 0,
     z_coord |-> 0, antennae_height |-> 0, timestamp |-> "", survey_id |-> "",
     sample_id |-> "", vna_freq |-> <<>>, vna_trace |-> <<>>,
     vna_freq_list |-> <<>>, vna_trace_re |-> <<>>, vna_trace_im |-> <<>>,
     sent |-> NotSent]

NoLoc ==
    [vna_response |-> <<>>, vna_freq |-> <<>>, vna_trace_re |-> <<>>,
     vna_trace_im |-> <<>>, json_str |-> <<>>, fname |-> <<>>]

\* DataParsing.parse_vna_frequency(raw)
ParseFrequencyCall(raw, sent) ==
    [NoCall EXCEPT !.op = "parse_vna_frequency", !.vna_freq = raw, !.sent = sent]

\* DataParsing.parse_vna_trace(raw)
ParseTraceCall(raw, sent) ==
    [NoCall EXCEPT !.op = "parse_vna_trace", !.vna_trace = raw, !.sent = sent]

\* the metadata of a sample: survey directory, coordinates, sample id
Meta(survey_dir, xyz, sample_id) ==
    [NoCall EXCEPT !.survey_dir = survey_dir, !.x_coord = xyz[1],
                   !.y_coord = xyz[2], !.z_coord = xyz[3],
                   !.antennae_height = 120, !.timestamp = "t",
                   !.survey_id = "survey", !.sample_id = sample_id]

\* DataProcessing.process_data(..., vna_freq, vna_trace) on raw responses
ProcessDataCall(meta, raw_freq, raw_trace) ==
    [meta EXCEPT !.op = "process_data", !.vna_freq = raw_freq,
                 !.vna_trace = raw_trace]

\* DataStorage.store_data(..., vna_freq, vna_trace_re, vna_trace_im) on lists
\* (its vna_freq is the field vna_freq_list: the raw strings of process_data
\* and the lists of store_data are kept apart)
StoreDataCall(meta, freq, re, im) ==
    [meta EXCEPT !.op = "store_data", !.vna_freq_list = freq,
                 !.vna_trace_re = re, !.vna_trace_im = im]

\* the position a call starts at, and its locals there
EntryPc(c) ==
    CASE c.op = "parse_vna_frequency" -> "remove_header"
      [] c.op = "parse_vna_trace"     -> "remove_header"
      [] c.op = "process_data"        -> "parse_frequency"
      [] c.op = "store_data"          -> "build_record"
      [] OTHER                        -> "idle"

EntryLoc(c) ==
    CASE c.op = "parse_vna_frequency" -> [NoLoc EXCEPT !.vna_response = c.vna_freq]
      [] c.op = "parse_vna_trace"     -> [NoLoc EXCEPT !.vna_response = c.vna_trace]
      [] c.op = "store_data"          ->
            [NoLoc EXCEPT !.vna_freq = c.vna_freq_list,
                          !.vna_trace_re = c.vna_trace_re,
                          !.vna_trace_im = c.vna_trace_im]
      [] OTHER                        -> NoLoc

-----------------------------------------------------------------------------
(* Steps of an invocation *)

\* an exception leaves the invocation and reaches its caller
Raise(p, err) ==
    /\ pc' = [pc EXCEPT ![p] = "raised"]
    /\ outcome' = [outcome EXCEPT ![p] = err]

Return(p) ==
    /\ pc' = [pc EXCEPT ![p] = "done"]
    /\ outcome' = [outcome EXCEPT ![p] = "ok"]

\* parse_vna_frequency / parse_vna_trace: the call of __remove_header
RemoveHeaderStep(p) ==
    /\ pc[p] = "remove_header"
    /\ LET r == RemoveHeader(loc[p].vna_response)
       IN  IF r.err # "none"
           THEN Raise(p, r.err) /\ UNCHANGED loc
           ELSE /\ loc' = [loc EXCEPT ![p].vna_response = r.out]
                /\ pc' = [pc EXCEPT ![p] = "create_array"]
                /\ UNCHANGED outcome
    /\ UNCHANGED <<call, dirs, files>>

\* parse_vna_frequency / parse_vna_trace: the call of __create_array;
\* parse_vna_frequency returns the list
CreateArrayStep(p) ==
    /\ pc[p] = "create_array"
    /\ LET r == CreateArray(loc[p].vna_response)
       IN  IF r.err # "none"
           THEN Raise(p, r.err) /\ UNCHANGED loc
           ELSE /\ loc' = [loc EXCEPT ![p].vna_freq = r.out]
                /\ IF call[p].op = "parse_vna_trace"
                   THEN pc' = [pc EXCEPT ![p] = "split_trace"] /\ UNCHANGED outcome
                   ELSE Return(p)
    /\ UNCHANGED <<call, dirs, files>>

\* parse_vna_trace: the loop that fills the two lists, and the return
SplitTraceStep(p) ==
    /\ pc[p] = "split_trace"
    /\ loc' = [loc EXCEPT ![p].vna_trace_re = SplitTrace(loc[p].vna_freq).re,
                          ![p].vna_trace_im = SplitTrace(loc[p].vna_freq).im]
    /\ Return(p)
    /\ UNCHANGED <<call, dirs, files>>

\* process_data: vna_freq = DataParsing.parse_vna_frequency(vna_freq)
ParseFrequency(p) ==
    /\ pc[p] = "parse_frequency"
    /\ LET r == ParseVnaFrequency(call[p].vna_freq)
       IN  IF r.err # "none"
           THEN Raise(p, r.err) /\ UNCHANGED loc
           ELSE /\ loc' = [loc EXCEPT ![p].vna_freq = r.out]
                /\ pc' = [pc EXCEPT ![p] = "parse_trace"]
                /\ UNCHANGED outcome
    /\ UNCHANGED <<call, dirs, files>>

\* process_data: vna_trace_re, vna_trace_im = DataParsing.parse_vna_trace(...)
\* and the call of store_data
ParseTrace(p) ==
    /\ pc[p] = "parse_trace"
    /\ LET r == ParseVnaTrace(call[p].vna_trace)
       IN  IF r.err # "none"
           THEN Raise(p, r.err) /\ UNCHANGED loc
           ELSE /\ loc' = [loc EXCEPT ![p].vna_trace_re = r.re,
                                      ![p].vna_trace_im = r.im]
                /\ pc' = [pc EXCEPT ![p] = "build_record"]
                /\ UNCHANGED outcome
    /\ UNCHANGED <<call, dirs, files>>

\* store_data: data_list, file_dict, json_str and fname
BuildRecord(p) ==
    /\ pc[p] = "build_record"
    /\ LET d == DataList(loc[p].vna_freq, loc[p].vna_trace_re, loc[p].vna_trace_im)
       IN  IF d.err # "none"
           THEN Raise(p, d.err) /\ UNCHANGED loc
           ELSE /\ loc' = [loc EXCEPT
                             ![p].json_str = JsonDumps(FileDict(call[p], d.out)),
                             ![p].fname = FName(call[p].x_coord, call[p].y_coord,
                                                call[p].z_coord)]
                /\ pc' = [pc EXCEPT ![p] = "check_main_folder"]
                /\ UNCHANGED outcome
    /\ UNCHANGED <<call, dirs, files>>

\* __check_main_folder: main_dir_exists = os.path.exists(main_folder)
CheckMainFolder(p) ==
    /\ pc[p] = "check_main_folder"
    /\ pc' = [pc EXCEPT ![p] = IF MainFolder \in dirs
                               THEN "check_survey_folder" ELSE "mkdir_main"]
    /\ UNCHANGED <<call, loc, outcome, dirs, files>>

\* __check_main_folder: os.mkdir(main_folder), which raises FileExistsError
\* when the directory exists
MkdirMain(p) ==
    /\ pc[p] = "mkdir_main"
    /\ IF MainFolder \in dirs
       THEN Raise(p, "FileExistsError") /\ UNCHANGED dirs
       ELSE /\ dirs' = dirs \cup {MainFolder}
            /\ pc' = [pc EXCEPT ![p] = "check_survey_folder"]
            /\ UNCHANGED outcome
    /\ UNCHANGED <<call, loc, files>>

\* __check_survey_folder with its test inverted: mkdir when the folder exists
CheckSurveyFolderInverted(p) ==
    /\ pc[p] = "check_survey_folder"
    /\ pc' = [pc EXCEPT ![p] = IF SurveyPath(call[p].survey_dir) \in dirs
                               THEN "mkdir_survey" ELSE "open_file"]
    /\ UNCHANGED <<call, loc, outcome, dirs, files>>

\* __check_survey_folder: survey_dir_exists = os.path.exists(path)
CheckSurveyFolder(p) ==
    /\ pc[p] = "check_survey_folder"
    /\ pc' = [pc EXCEPT ![p] = IF SurveyPath(call[p].survey_dir) \in dirs
                               THEN "open_file" ELSE "mkdir_survey"]
    /\ UNCHANGED <<call, loc, outcome, dirs, files>>

\* __check_survey_folder: os.mkdir(path), which raises FileExistsError when
\* the directory exists and FileNotFoundError when its parent does not
MkdirSurvey(p) ==
    /\ pc[p] = "mkdir_survey"
    /\ IF SurveyPath(call[p].survey_dir) \in dirs
       THEN Raise(p, "FileExistsError") /\ UNCHANGED dirs
       ELSE IF MainFolder \notin dirs
       THEN Raise(p, "FileNotFoundError") /\ UNCHANGED dirs
       ELSE /\ dirs' = dirs \cup {SurveyPath(call[p].survey_dir)}
            /\ pc' = [pc EXCEPT ![p] = "open_file"]
            /\ UNCHANGED outcome
    /\ UNCHANGED <<call, loc, files>>

\* content of a file just created or truncated
EmptyContent == <<>>

\* content of a file two overlapping writers wrote to: bytes of both
Interleaved == << <<"interleaved", 0>> >>

\* the file system with content c at path f
WithFile(fs, f, c) ==
    [g \in DOMAIN fs \cup {f} |-> IF g = f THEN c ELSE fs[g]]

\* store_data: open(survey_path + '/' + fname, 'w') creates or truncates the
\* file, and raises FileNotFoundError when the directory does not exist
OpenFile(p) ==
    /\ pc[p] = "open_file"
    /\ IF SurveyPath(call[p].survey_dir) \notin dirs
       THEN Raise(p, "FileNotFoundError") /\ UNCHANGED files
       ELSE /\ files' = WithFile(files, FilePath(call[p].survey_dir, loc[p].fname),
                                 EmptyContent)
            /\ pc' = [pc EXCEPT ![p] = "write_file"]
            /\ UNCHANGED outcome
    /\ UNCHANGED <<call, loc, dirs>>

\* store_data: json_file.write(json_str) and the close of the file. The write
\* starts at offset 0 of the writer's own handle: when another writer has
\* written since this one truncated the file, the bytes of the two may mix
WriteFile(p) ==
    /\ pc[p] = "write_file"
    /\ LET f == FilePath(call[p].survey_dir, loc[p].fname)
       IN  \E c \in (IF files[f] \in {EmptyContent, loc[p].json_str}
                     THEN {loc[p].json_str}
                     ELSE {loc[p].json_str, Interleaved}) :
               files' = WithFile(files, f, c)
    /\ Return(p)
    /\ UNCHANGED <<call, loc, dirs>>

-----------------------------------------------------------------------------
(* Initial states *)

\* content of a file that was on disk before any call of the model
OldContent == << <<"other", 0>> >>

NoFiles == [g \in {} |-> EmptyContent]

\* a file of survey "A" that no call of the model names
OtherFile == FilePath("A", <<"n", "o", "t", "e", "s">>)

\* the file of survey "A" for x=1.5, y=2.25, z=0.0
ExampleFile == FilePath("A", FName(1500, 2250, 0))

\* file systems a call may find: nothing; the main folder alone; the main
\* folder with another survey; with the survey of the call, empty; with both
\* surveys and files in them, the target of the call among them
FileSystems ==
    { [dirs |-> {}, files |-> NoFiles],
      [dirs |-> {MainFolder}, files |-> NoFiles],
      [dirs |-> {MainFolder, SurveyPath("B")},
       files |-> WithFile(NoFiles, FilePath("B", FName(1500, 2250, 0)), OldContent)],
      [dirs |-> {MainFolder, SurveyPath("A")}, files |-> NoFiles],
      [dirs |-> {MainFolder, SurveyPath("A"), SurveyPath("B")},
       files |-> WithFile(WithFile(NoFiles, OtherFile, OldContent),
                          ExampleFile, OldContent)] }

InitWith(c1, c2, fs) ==
    /\ call = <<c1, c2>>
    /\ pc = <<EntryPc(c1), EntryPc(c2)>>
    /\ loc = <<EntryLoc(c1), EntryLoc(c2)>>
    /\ outcome = [p \in Procs |-> "none"]
    /\ dirs = fs.dirs
    /\ files = fs.files

\* inputs of the parser: every string over the alphabet up to MaxRaw
\* characters, every encoding of a list of at most MaxVals values (and of the
\* example trace) behind every header of at most MaxHeader bytes, and the
\* '#15' scenario
EncodedResponses ==
    { [raw |-> Encode(h, v), sent |-> Sent(h, v)] :
        h \in SeqsUpTo(HeaderBytes, MaxHeader),
        v \in SeqsUpTo(FloatVals, MaxVals) \cup {ExampleTrace} }

ArbitraryResponses ==
    { [raw |-> s, sent |-> NotSent] :
        s \in SeqsUpTo(Alphabet, MaxRaw) \cup {ScenarioResponse} }

ParseCalls ==
    LET rs == EncodedResponses \cup ArbitraryResponses
    IN  {ParseFrequencyCall(r.raw, r.sent) : r \in rs}
        \cup {ParseTraceCall(r.raw, r.sent) : r \in rs}

\* coordinates, in thousandths
StoreCoords == {<<1500, 2250, 0>>, <<-4, 3100, -12344>>}

\* values of the lists passed directly to store_data
FreqVals == {<<1, 0>>, <<2, 0>>}
ReVals == {<<1, 0>>, <<-25, 1>>}
ImVals == {<<3, 0>>}

\* single calls of the pipeline and of the storage
StoreCalls ==
    { ProcessDataCall(Meta("A", xyz, "s1"), f, t) :
        xyz \in StoreCoords, f \in PipelineResponses, t \in PipelineResponses }
    \cup
    { StoreDataCall(Meta("A", xyz, "s1"), f, r, i) :
        xyz \in StoreCoords, f \in SeqsUpTo(FreqVals, MaxPts),
        r \in SeqsUpTo(ReVals, MaxPts), i \in SeqsUpTo(ImVals, MaxPts) }

\* coordinates of calls made one after the other: values that agree to two
\* decimals without being equal, on both sides of zero
SeqCoords ==
    {<<x, 2250, z>> : x \in {-4, 4, 1496, 1504}, z \in {0, -1}}

SeqCalls ==
    { StoreDataCall(Meta(d, xyz, s), << <<1, 0>> >>, << <<-25, 1>> >>, << <<3, 0>> >>) :
        d \in {"A", "B"}, xyz \in SeqCoords, s \in {"s1", "s2"} }

\* calls made at the same time
ConcCalls ==
    { StoreDataCall(Meta(d, xyz, "s1"), << <<1, 0>> >>, << <<-25, 1>> >>, << <<3, 0>> >>) :
        d \in {"A", "B"}, xyz \in StoreCoords }

\* one call of parse_vna_frequency or parse_vna_trace
InitParse == \E c \in ParseCalls : InitWith(c, NoCall, [dirs |-> {}, files |-> NoFiles])

\* one call of process_data or store_data, on any file system
InitStore == \E c \in StoreCalls, fs \in FileSystems : InitWith(c, NoCall, fs)

\* two calls of store_data, the second made when the first has ended
InitSeq ==
    \E c1 \in SeqCalls, c2 \in SeqCalls, fs \in FileSystems : InitWith(c1, c2, fs)

\* two calls of store_data running at the same time (the service handler
\* runs once per request, each request in its own thread)
Init ==
    \E c1 \in ConcCalls, c2 \in ConcCalls, fs \in FileSystems :
        InitWith(c1, [c2 EXCEPT !.sample_id = "s2"], fs)

-----------------------------------------------------------------------------
(* Specifications *)

NextParse ==
    \/ RemoveHeaderStep(1)
    \/ CreateArrayStep(1)
    \/ SplitTraceStep(1)

SpecParse == InitParse /\ [][NextParse]_vars

NextStore ==
    \/ ParseFrequency(1)
    \/ ParseTrace(1)
    \/ BuildRecord(1)
    \/ CheckMainFolder(1)
    \/ MkdirMain(1)
    \/ CheckSurveyFolder(1)
    \/ MkdirSurvey(1)
    \/ OpenFile(1)
    \/ WriteFile(1)

SpecStore == InitStore /\ [][NextStore]_vars

\* the store_data steps of invocation p
StoreStep(p) ==
    \/ BuildRecord(p)
    \/ CheckMainFolder(p)
    \/ MkdirMain(p)
    \/ CheckSurveyFolder(p)
    \/ MkdirSurvey(p)
    \/ OpenFile(p)
    \/ WriteFile(p)

\* invocation 2 is called when invocation 1 has ended
Ended(p) == pc[p] \in {"done", "raised"}

NextSeq ==
    \/ StoreStep(1)
    \/ Ended(1) /\ StoreStep(2)

SpecSeq == InitSeq /\ [][NextSeq]_vars

Next == \E p \in Procs : StoreStep(p)

Spec == Init /\ [][Next]_vars

-----------------------------------------------------------------------------
(* Properties of the parser, checked under SpecParse *)

\* the raw response invocation p parses
Raw(p) ==
    IF call[p].op = "parse_vna_trace" THEN call[p].vna_trace ELSE call[p].vna_freq

\* the elements of s at even 0-based positions, in order
EvenPositions(s) == [i \in 1..((Len(s) + 1) \div 2) |-> s[2 * i - 1]]

\* the elements of s at odd 0-based positions, in order
OddPositions(s) == [i \in 1..(Len(s) \div 2) |-> s[2 * i]]

\* C1: when parse_vna_trace returns, for a decoded sequence of any length,
\* the real list is the elements at even 0-based positions and the imaginary
\* list is the elements at odd 0-based positions.
C1_StrictDeinterleave ==
    \A p \in Procs :
        (call[p].op = "parse_vna_trace" /\ pc[p] = "done")
        => /\ loc[p].vna_trace_re = EvenPositions(loc[p].vna_freq)
           /\ loc[p].vna_trace_im = OddPositions(loc[p].vna_freq)

\* C2: decoding the encoding of a float list behind any header ends without
\* an error and returns exactly that list, same order and same count.
C2_DecodeReturnsEncodedList ==
    \A p \in Procs :
        (call[p].op = "parse_vna_frequency" /\ call[p].sent.valid /\ Ended(p))
        => /\ outcome[p] = "ok"
           /\ loc[p].vna_freq = call[p].sent.vals

\* a decoded response whose header held a comma and whose list held two
\* different values
C2_Witness ==
    \E p \in Procs :
        /\ call[p].op = "parse_vna_frequency" /\ call[p].sent.valid
        /\ pc[p] = "done"
        /\ call[p].sent.hdr = <<",">>
        /\ Len(loc[p].vna_freq) >= 2
        /\ loc[p].vna_freq[1] # loc[p].vna_freq[2]

\* a response shorter than its header promises: it holds the length digit N
\* and fewer than 2 + N characters
ShorterThanPromised(raw) ==
    /\ Len(raw) >= 2
    /\ raw[1] = "#"
    /\ IsDigit(raw[2])
    /\ Len(raw) < 2 + DigitVal(raw[2])

\* C5: decoding a response shorter than its header promises ends in a
\* failure, never in a list of values.
C5_ShortResponseFails ==
    \A p \in Procs :
        (call[p].op \in {"parse_vna_frequency", "parse_vna_trace"}
         /\ ShorterThanPromised(Raw(p)) /\ Ended(p))
        => outcome[p] # "ok"

\* C7 as stated: decoding '#15' + fifteen 'x' + '1.0,2.0,3.0,' yields
\* [1.0, 2.0, 3.0].
C7_ScenarioDecodes ==
    \A p \in Procs :
        (call[p].op = "parse_vna_frequency" /\ Raw(p) = ScenarioResponse
         /\ Ended(p))
        => /\ outcome[p] = "ok"
           /\ loc[p].vna_freq = << <<1, 0>>, <<2, 0>>, <<3, 0>> >>

\* C7 amended: decoding '#15' + fifteen 'x' + '1.0,2.0,3.0,' reads the header
\* length from the one digit '1', removes '1' and '5', keeps the fifteen 'x'
\* in front of the values, and ends in a ValueError.
C7_ScenarioRaises ==
    \A p \in Procs :
        (call[p].op = "parse_vna_frequency" /\ Raw(p) = ScenarioResponse)
        => /\ pc[p] = "create_array"
              => loc[p].vna_response = SliceFrom(ScenarioResponse, 3)
           /\ Ended(p) => outcome[p] = "ValueError"

\* the scenario response has been decoded to its end
C7_Witness ==
    \E p \in Procs :
        /\ call[p].op = "parse_vna_frequency" /\ Raw(p) = ScenarioResponse
        /\ pc[p] = "raised"

-----------------------------------------------------------------------------
(* Properties of the pipeline and of the storage *)

\* positions inside store_data
InStoreData ==
    {"build_record", "check_main_folder", "mkdir_main", "check_survey_folder",
     "mkdir_survey", "open_file", "write_file", "done"}

\* the file invocation p writes
Target(p) ==
    FilePath(call[p].survey_dir,
             FName(call[p].x_coord, call[p].y_coord, call[p].z_coord))

\* C3 (checked under Spec): two store_data calls running at the same time
\* both complete successfully under every interleaving of their existence
\* checks and directory creations.
C3_ConcurrentCreatorsSucceed ==
    \A p \in Procs : Ended(p) => outcome[p] = "ok"

\* malformed responses: a header digit that is no digit, a segment before
\* the last that is no float literal, a string cut short
BadHeaderDigit(raw) == Len(raw) >= 2 /\ ~IsDigit(raw[2])

NonNumericSegment(raw) ==
    /\ Len(raw) >= 2 /\ IsDigit(raw[2])
    /\ LET segs == Split(SliceFrom(raw, 2 + DigitVal(raw[2])), ",")
       IN  \E i \in 1..(Len(segs) - 1) : ~ParseFloat(segs[i]).ok

Malformed(raw) ==
    \/ BadHeaderDigit(raw)
    \/ NonNumericSegment(raw)
    \/ Len(raw) < 2
    \/ ShorterThanPromised(raw)

\* positions at which store_data has created its file
FileCreated == {"write_file", "done"}

\* C4 (checked under SpecStore): when vna_freq or vna_trace is malformed,
\* process_data ends in a failure, and no file is created or written for
\* that invocation.
C4_MalformedAborts ==
    \A p \in Procs :
        (call[p].op = "process_data"
         /\ (Malformed(call[p].vna_freq) \/ Malformed(call[p].vna_trace)))
        => /\ pc[p] \notin FileCreated
           /\ Ended(p) => outcome[p] # "ok"

\* the three lists of invocation p do not all have the same length
LengthMismatch(p) ==
    \/ Len(loc[p].vna_freq) # Len(loc[p].vna_trace_re)
    \/ Len(loc[p].vna_freq) # Len(loc[p].vna_trace_im)

\* C6 (checked under SpecStore): lists of unequal length reaching store_data
\* are reported as an error: store_data writes no file for them, does not
\* return normally, and does not fail by indexing out of bounds.
C6_MismatchDetected ==
    \A p \in Procs :
        (call[p].op = "store_data" /\ LengthMismatch(p))
        => /\ pc[p] \notin FileCreated
           /\ outcome[p] \notin {"ok", "IndexError"}

\* the data array of a stored document
DataOf(doc) == doc[8][2]

\* C9 (checked under SpecStore): when store_data has completed, the data
\* array of the stored record has len(vna_freq) entries and entry i is
\* {freq_value: vna_freq[i], real_value: vna_trace_re[i],
\*  imaginary_value: vna_trace_im[i]}.
C9_DataPairsByIndex ==
    \A p \in Procs :
        pc[p] = "done"
        => LET data == DataOf(files[Target(p)])
           IN  /\ Len(data) = Len(loc[p].vna_freq)
               /\ \A i \in 1..Len(data) :
                      data[i] = << <<"freq_value", loc[p].vna_freq[i]>>,
                                   <<"real_value", loc[p].vna_trace_re[i]>>,
                                   <<"imaginary_value", loc[p].vna_trace_im[i]>> >>

\* a stored record of two frequency points with different values, built
\* from a real list that differs from the imaginary list
C9_Witness ==
    \E p \in Procs :
        /\ pc[p] = "done"
        /\ Len(loc[p].vna_freq) = 2
        /\ loc[p].vna_freq[1] # loc[p].vna_freq[2]
        /\ loc[p].vna_trace_re[2] # loc[p].vna_trace_im[2]
        /\ Len(DataOf(files[Target(p)])) = 2

\* the lists of invocation 1 have the same length
EqualLengths ==
    /\ Len(loc[1].vna_freq) = Len(loc[1].vna_trace_re)
    /\ Len(loc[1].vna_freq) = Len(loc[1].vna_trace_im)

\* one step of a store_data call on equal-length lists, on its own
C10_Step ==
    (pc[1] \in InStoreData /\ EqualLengths)
    => /\ pc'[1] # "raised"
       /\ dirs \subseteq dirs'
       /\ dirs' \ dirs \subseteq {MainFolder, SurveyPath(call[1].survey_dir)}
       /\ SurveyPath(call[1].survey_dir) \in dirs' \ dirs => MainFolder \in dirs
       /\ files' # files
          => /\ {MainFolder, SurveyPath(call[1].survey_dir)} \subseteq dirs
             /\ DOMAIN files' = DOMAIN files \cup {Target(1)}
       /\ \A f \in DOMAIN files :
              f # Target(1) => f \in DOMAIN files' /\ files'[f] = files[f]
       /\ pc'[1] = "done"
          => /\ {MainFolder, SurveyPath(call[1].survey_dir)} \subseteq dirs'
             /\ files'[Target(1)] = loc[1].json_str

\* C10 (checked under SpecStore): from any initial file system, a store_data
\* call on equal-length lists never fails, creates no directory but the main
\* and survey directories that are missing (main before survey), deletes
\* none, changes no file but its coordinate-named target, writes it only when
\* both directories exist, and has written its record there when it returns.
C10_FrameOfOneCall == [][C10_Step]_vars

\* a completed call that found the main folder and another survey, and
\* created its own survey folder beside them
C10_Witness ==
    /\ pc[1] = "done"
    /\ call[1].op = "store_data"
    /\ dirs = {MainFolder, SurveyPath("A"), SurveyPath("B")}
    /\ OtherFile \notin DOMAIN files
    /\ files[Target(1)] = loc[1].json_str
    /\ files[FilePath("B", FName(1500, 2250, 0))] = OldContent

-----------------------------------------------------------------------------
(* Properties of two calls made one after the other, checked under SpecSeq *)

\* a coordinate (in thousandths) rounded to hundredths, as a number
Hundredths(c) == IF c < 0 THEN 0 - ((0 - c + 5) \div 10) ELSE (c + 5) \div 10

\* both calls returned normally and name the same survey directory
BothStored ==
    /\ pc[1] = "done" /\ pc[2] = "done"
    /\ call[1].survey_dir = call[2].survey_dir

\* the coordinates of the two calls are equal numbers at two decimals
EqualAtTwoDecimals ==
    /\ Hundredths(call[1].x_coord) = Hundredths(call[2].x_coord)
    /\ Hundredths(call[1].y_coord) = Hundredths(call[2].y_coord)
    /\ Hundredths(call[1].z_coord) = Hundredths(call[2].z_coord)

\* the coordinates of the two calls have the same signs
SameSigns ==
    /\ (call[1].x_coord < 0) = (call[2].x_coord < 0)
    /\ (call[1].y_coord < 0) = (call[2].y_coord < 0)
    /\ (call[1].z_coord < 0) = (call[2].z_coord < 0)

\* both calls name one file, that file exists, holds the record of the
\* second call, and holds what the first call wrote when the samples are equal
LastWriteWins ==
    /\ loc[1].fname = loc[2].fname
    /\ Cardinality({f \in DOMAIN files : f \in {Target(1), Target(2)}}) = 1
    /\ files[Target(2)] = loc[2].json_str
    /\ call[1] = call[2] => files[Target(2)] = loc[1].json_str

\* C8 as stated: two successful store_data calls, one after the other, with
\* the same survey_dir and coordinates equal at 2-decimal precision name the
\* same file, and after the second call that one file holds the second record.
C8_SameNameLastWriteWins ==
    (BothStored /\ EqualAtTwoDecimals) => LastWriteWins

\* C8 amended: the same, for coordinates that are equal at 2-decimal
\* precision and of the same sign (a negative coordinate that rounds to zero
\* is written -00.00, not 000.00).
C8_SameTextLastWriteWins ==
    (BothStored /\ EqualAtTwoDecimals /\ SameSigns) => LastWriteWins

\* two different samples whose x coordinates differ and agree at two
\* decimals, stored one after the other in one file
C8_Witness ==
    /\ BothStored /\ EqualAtTwoDecimals /\ SameSigns
    /\ call[1].x_coord # call[2].x_coord
    /\ call[1].sample_id # call[2].sample_id
    /\ files[Target(2)] = loc[2].json_str
    /\ loc[1].json_str # loc[2].json_str

=============================================================================
